---- MODULE Spec2Model ----
(***************************************************************************)
(* The cover-image pipeline of the playnite_web_mqtt integration:          *)
(* PlayniteGameSwitch.handle_cover_image (switch.py) admits a cover        *)
(* message through the module-level compression_semaphore and hands its    *)
(* payload to ImageCompressor.compress_image (image_compressor.py), whose  *)
(* two phases run on executor threads that share the compressor's one      *)
(* BytesIO buffer.                                                         *)
(*                                                                         *)
(* Sizes are counted in units: a budget of max_size units stands for the   *)
(* byte budget, an encoding is a sequence of tagged units.  Scale factors  *)
(* are percentages (0.75 is 75).                                           *)
(***************************************************************************)
EXTENDS Integers, Sequences, FiniteSets, TLC

---------------------------------------------------------------------------
(* Bounds of the model *)

\* The largest byte budget (in units) a configuration is drawn with.
MaxSize == 2
\* Quality steps below initial_quality for which an image's encoded size is drawn.
MaxSteps == 3
\* MQTT messages (discovery, cover, game state) that arrive in one run.
MaxMsgs == 4
\* Cover messages in a burst beyond the capacity of compression_semaphore.
Overflow == 1
\* Cover messages that arrive after the burst.
Later == 1

(* Program constants *)

DEFAULT_MIN_QUALITY == 60
DEFAULT_INITIAL_QUALITY == 95
DEFAULT_QUALITY_STEP == 10
\* _publish_mqtt_message: `max_retries = 3`
MaxRetries == 3
\* _execute_script: `retries=2`
Retries == 2
MAX_CONCURRENT_COMPRESSIONS == 5
\* _resize_and_compress: the first scale factor, its decrement and its floor (percent)
FirstFactor == 75
FactorStep == 25
FloorFactor == 25
FullScale == 100

NumTasks == MAX_CONCURRENT_COMPRESSIONS + Overflow + Later
Tasks == 1..NumTasks

VARIABLES
    cfg,      \* the ImageCompressor's max_size, min_quality, initial_quality, quality_step
              \* and max_concurrent_compressions
    img,      \* img[t]: the payload of the cover message task t handles
    swOf,     \* swOf[t]: the switch whose handle_cover_image task t runs
    ready,    \* the event loop's queue of handle_cover_image tasks not yet started
    waiters,  \* compression_semaphore's FIFO of suspended acquirers
    sem,      \* compression_semaphore's free slots
    buffer,   \* ImageCompressor._buffer: its contents
    bufpos,   \* ImageCompressor._buffer: its stream position
    task,     \* task[t]: where the handler and its worker thread stand
    switch,   \* switch[s]: _image_data, _compressed_image_data, original_image_hash,
              \* _encoded_image
    entry,    \* the config entry's data, from which _setup_device_and_data builds cfg
    hass,     \* the host: is_running, the listeners of homeassistant_started, the tasks
              \* handed to its loop, the library requests sent
    registry, \* hass.data[DOMAIN][entry_id]["switches"]: id -> switch object, 0 for none
    coverq,   \* COVER_IMAGE_QUEUE: id -> queued cover messages, <<>> for no entry
    objs,     \* the PlayniteGameSwitch objects created, in order of creation
    inbox,    \* the MQTT messages handled so far: their number, the last one, and per
              \* release the cover messages that were queued, in order of arrival
    script,   \* script[w]: the run_script task of the 'before' and of the 'after' script
    pub,      \* the task publishing the start or stop request
    mqtt      \* the MqttHandler's _unsubscribe_callback, and the subscriptions made
              \* through the handler that the host still serves

\* The variables of the cover pipeline, and those of the rest of the integration.
coverVars == <<cfg, img, swOf, ready, waiters, sem, buffer, bufpos, task, switch>>
hostVars == <<entry, hass, registry, coverq, objs, inbox, script, pub, mqtt>>

vars == <<cfg, img, swOf, ready, waiters, sem, buffer, bufpos, task, switch,
          entry, hass, registry, coverq, objs, inbox, script, pub, mqtt>>

---------------------------------------------------------------------------
(* Bytes *)

\* A unit of a payload: q = 0 marks bytes that are no encoding made here.
RawUnit(id, k) == [img |-> id, q |-> 0, s |-> 0, k |-> k]
\* The zero byte BytesIO.write pads with when the position is past the end.
PadUnit == [img |-> 0, q |-> 0, s |-> 0, k |-> 0]

Payload(im) == [k \in 1..im.len |-> RawUnit(im.id, k)]

\* len(image.save(...)) for image im at quality q and scale s: the image decides it.
EncSize(im, q, s) == IF <<q, s>> \in im.fit THEN 1 ELSE MaxSize + 1

\* The bytes image.save writes for image im at quality q and scale s.
Encode(im, q, s) == [k \in 1..EncSize(im, q, s) |-> [img |-> im.id, q |-> q, s |-> s, k |-> k]]

\* hash(self._image_data)
HashOf(im) == im.id

Pads(n) == [k \in 1..n |-> PadUnit]

\* BytesIO.write(data) at position pos: pads up to pos, overwrites from pos.
BufWrite(buf, pos, data) ==
    IF pos >= Len(buf)
    THEN buf \o Pads(pos - Len(buf)) \o data
    ELSE SubSeq(buf, 1, pos) \o data \o SubSeq(buf, pos + Len(data) + 1, Len(buf))

---------------------------------------------------------------------------
(* Configurations and inputs *)

Config(ms, minq, initq, conc) ==
    [max_size |-> ms, min_quality |-> minq, initial_quality |-> initq,
     quality_step |-> DEFAULT_QUALITY_STEP, max_concurrent_compressions |-> conc]

\* The (min_quality, initial_quality) pairs configurations are drawn with.  Neither
\* ImageCompressor.__init__ nor _setup_device_and_data checks them.
QualityPairs ==
    { <<DEFAULT_MIN_QUALITY, DEFAULT_INITIAL_QUALITY>>, <<75, 95>>, <<95, 95>>, <<90, 50>> }

Configs ==
    { Config(ms, p[1], p[2], MAX_CONCURRENT_COMPRESSIONS) : ms \in 1..MaxSize, p \in QualityPairs }

\* The settings an image's encoded size is drawn for; at any other setting it is over
\* budget.
Keys(c) ==
    { <<c.initial_quality - k * c.quality_step, FullScale>> : k \in 0..MaxSteps }
    \cup { <<c.min_quality, f>> : f \in {FirstFactor, FirstFactor - FactorStep, FloorFactor} }

Images(c, ids) ==
    [id : ids, len : 1..(MaxSize + 1), ok : BOOLEAN, enc_ok : BOOLEAN, fit : SUBSET Keys(c)]

NoTask ==
    [pc |-> "idle", phase |-> 0, quality |-> 0, factor |-> 0, data |-> <<>>, exc |-> FALSE,
     tried |-> <<>>, decoded |-> FALSE, opens |-> 0, fast |-> FALSE, hash |-> 0, src |-> 0,
     out |-> [kind |-> "none", bytes |-> <<>>]]

\* pic: what the last read of entity_picture gave, and whether the switch's compression
\* had failed by then.
NoSwitch ==
    [image_data |-> 0, compressed |-> [none |-> TRUE, bytes |-> <<>>], hash |-> 0,
     encoded |-> FALSE, b64 |-> <<>>, pic |-> [result |-> "unread", failed |-> FALSE]]

---------------------------------------------------------------------------
(* The config entry and the host *)

\* The data of a config entry made by the config flow, which has no quality_step field.
EntryFor(c) ==
    [max_image_size |-> c.max_size, min_quality |-> c.min_quality,
     initial_quality |-> c.initial_quality,
     max_concurrent_compressions |-> c.max_concurrent_compressions]

\* The same with a quality_step a caller puts into the data.
EntryWith(c, step) ==
    [max_image_size |-> c.max_size, min_quality |-> c.min_quality,
     initial_quality |-> c.initial_quality,
     max_concurrent_compressions |-> c.max_concurrent_compressions, quality_step |-> step]

\* _setup_device_and_data: the four entry.data.get(...) and ImageCompressor(...), whose
\* __init__ sets self.quality_step = DEFAULT_QUALITY_STEP
Construct(e) ==
    Config(e.max_image_size, e.min_quality, e.initial_quality, e.max_concurrent_compressions)

\* The quality steps a caller asks for: the default and a finer one.
WantedSteps == {DEFAULT_QUALITY_STEP, DEFAULT_QUALITY_STEP \div 2}

\* The ids of game releases (the last part of a discovery topic) and of games (the "id"
\* of a payload); the two are different identifiers.
Releases == {"r1", "r2"}
Games == {"g1", "g2"}
Ids == Releases \cup Games

\* The game a release belongs to.
GameOf(r) == IF r = "r1" THEN "g1" ELSE "g2"

NoMsg == [kind |-> "none"]

NoInbox == [n |-> 0, last |-> NoMsg, queued |-> [r \in Releases |-> <<>>]]

ScriptRoles == {"before", "after"}

\* A running host in which the integration was set up: at_setup is what is_running
\* was when _schedule_library_request ran, listeners counts the listeners of
\* homeassistant_started, fired the times the event fired, loop holds the tasks handed
\* to the loop and libreqs the origins of the calls of send_library_request.
NoHass ==
    [running |-> TRUE, setup |-> TRUE, at_setup |-> "running", listeners |-> 0, fired |-> 0,
     loop |-> <<>>, libreqs |-> <<"setup">>]

\* A run_script task: results are the outcomes of its service calls in order, out is
\* how _execute_script ended.
NoScript == [pc |-> "idle", results |-> <<>>, out |-> "none"]

\* The task of send_game_start_request or send_game_stop_request: results are the
\* outcomes of its publish attempts in order, out is how _publish_mqtt_message ended;
\* is_on is the switch's _state.
\* MqttHandler.__init__: no callback stored, nothing subscribed, no subscribe_to_* and
\* no unsubscribe called yet.
Topics == {"connection", "state", "updates"}
NoMqtt == [unsubscribe_callback |-> "none", active |-> {}, called |-> {}, unsubscribed |-> FALSE]

NoPublish == [pc |-> "idle", action |-> "none", is_on |-> FALSE, results |-> <<>>, out |-> "none"]

---------------------------------------------------------------------------
(* ImageCompressor: the decisions of its two loops *)

\* A loop that goes one step below the floor.
QualityInRangeLoose(q) == q >= cfg.min_quality - cfg.quality_step

\* _progressive_quality_compression: `while quality >= self.min_quality`
QualityInRange(q) == q >= cfg.min_quality

\* A budget test that rejects a result exactly max_size long.
WithinBudgetStrict(n) == n < cfg.max_size

\* `if len(compressed_image_data) <= self.max_size` of both phases
WithinBudget(n) == n <= cfg.max_size

\* A compress_image that resizes whatever phase 1 returned.
NeedsResizeAlways(n) == TRUE

\* compress_image: `if len(compressed_image_data) > self.max_size`
NeedsResize(n) == n > cfg.max_size

\* A decrement of twice the step.
NextQualityDouble(q) == q - 2 * cfg.quality_step

\* `quality -= self.quality_step`
NextQuality(q) == q - cfg.quality_step

\* A floor one round too early.
ResizeDoneEarly(n, f) == n <= cfg.max_size \/ f <= FloorFactor + FactorStep

\* _resize_and_compress: `len(compressed_image_data) <= self.max_size or resize_factor <= 0.25`
ResizeDone(n, f) == WithinBudget(n) \/ f <= FloorFactor

\* A decrement of two rounds at once.
NextFactorDouble(f) == f - 2 * FactorStep

\* `resize_factor -= 0.25`
NextFactor(f) == f - FactorStep

\* A decoder that takes any bytes for an image.
DecodeNeverFails(im) == FALSE

\* `Image.open(BytesIO(image_data))` raises: the bytes are no image
DecodeFails(im) == ~im.ok

\* A request that decodes its input twice.
OpenImageTwice(tk) == [tk EXCEPT !.decoded = TRUE, !.opens = @ + 2]

\* `image = Image.open(BytesIO(image_data))`: the one decode of a request
OpenImage(tk) == [tk EXCEPT !.decoded = TRUE, !.opens = @ + 1]

\* `image.save(...)` raises: the encoder cannot write this image (its mode is not one
\* the format takes); nothing is written
SaveFails(im) == ~im.enc_ok

\* compress_image: `if initial_size <= self.max_size: return image_data`
FastPath(im) == im.len <= cfg.max_size

\* A block that is left without giving the slot back.
ReleaseNothing(v) == v

\* `async with compression_semaphore`: leaving the block, by return or by exception
SemRelease(v) == v + 1

\* asyncio.Semaphore.acquire without suspending: a free slot and nobody queued before
SemFree == sem > 0 /\ waiters = <<>>

\* The payload with the given identity, and the one the compression of task t was
\* called with: self._image_data as it was when compress_image was called.
ImageOf(id) == CHOOSE im \in {img[u] : u \in Tasks} : im.id = id
Source(t) == ImageOf(task[t].src)

---------------------------------------------------------------------------
(* handle_cover_image and compress_image, up to the first suspension *)

\* The compression ended with `bytes`: lines 411-416, then the semaphore is left.
Complete(t, sw, bytes, held) ==
    /\ switch' = [sw EXCEPT ![swOf[t]].compressed = [none |-> FALSE, bytes |-> bytes],
                             ![swOf[t]].hash = task[t].hash]
    /\ sem' = SemRelease(held)

\* A failure path that keeps the slot.
FailedKeepsSlot(t, sw, held) ==
    /\ switch' = sw
    /\ sem' = held

\* compress_image raised: `except Exception as compression_error`, then the semaphore is left.
Failed(t, sw, held) ==
    /\ switch' = sw
    /\ sem' = SemRelease(held)

\* compress_image from its first line to its first await, the slot being held:
\* Image.open, the size check, the hand-over of _progressive_quality_compression to the
\* executor, whose thread evaluates its first loop condition.
Admit(t, tk, sw, held) ==
    LET im == ImageOf(sw[swOf[t]].image_data)
        opened == [OpenImage(tk) EXCEPT !.src = im.id]
    IN  IF DecodeFails(im)
        THEN /\ task' = [task EXCEPT ![t] = [opened EXCEPT !.pc = "done", !.out.kind = "raise"]]
             /\ Failed(t, sw, held)
        ELSE IF FastPath(im)
        THEN /\ task' = [task EXCEPT ![t] = [opened EXCEPT !.pc = "done", !.fast = TRUE,
                                                 !.out = [kind |-> "bytes", bytes |-> Payload(im)]]]
             /\ Complete(t, sw, Payload(im), held)
        ELSE IF QualityInRange(cfg.initial_quality)
        THEN /\ task' = [task EXCEPT ![t] = [opened EXCEPT !.pc = "seek", !.phase = 1,
                                                 !.quality = cfg.initial_quality]]
             /\ switch' = sw
             /\ sem' = held
        ELSE \* the loop body never runs: `return compressed_image_data` raises in the thread
             /\ task' = [task EXCEPT ![t] = [opened EXCEPT !.pc = "ret", !.phase = 1, !.exc = TRUE]]
             /\ switch' = sw
             /\ sem' = held

\* handle_cover_image of task t's message, the switches being as in `cur`, from its
\* first line to its first suspension or to its end.
Handle(t, cur) ==
    LET im == img[t]
        s == swOf[t]
        sw == [cur EXCEPT ![s].image_data = im.id]
        tk == [task[t] EXCEPT !.hash = HashOf(im)]
    IN  IF HashOf(im) = cur[s].hash /\ ~cur[s].compressed.none
             /\ cur[s].compressed.bytes # <<>>
        THEN \* "Image data is the same as previous, not compressing"
             /\ task' = [task EXCEPT ![t] = [tk EXCEPT !.pc = "done", !.out.kind = "same"]]
             /\ switch' = sw
             /\ UNCHANGED <<sem, waiters>>
        ELSE IF ~cur[s].compressed.none
        THEN /\ task' = [task EXCEPT ![t] = [tk EXCEPT !.pc = "done"]]
             /\ switch' = sw
             /\ UNCHANGED <<sem, waiters>>
        ELSE IF SemFree
        THEN /\ Admit(t, tk, sw, sem - 1)
             /\ UNCHANGED waiters
        ELSE /\ task' = [task EXCEPT ![t] = [tk EXCEPT !.pc = "wait"]]
             /\ waiters' = Append(waiters, t)
             /\ switch' = sw
             /\ UNCHANGED sem

\* A handler that takes its switch for one that has stored nothing yet.
StartAnew(t) ==
    /\ ready # <<>> /\ t = Head(ready)
    /\ ready' = Tail(ready)
    /\ Handle(t, [switch EXCEPT ![swOf[t]].compressed = [none |-> TRUE, bytes |-> <<>>],
                                ![swOf[t]].hash = 0])
    /\ UNCHANGED <<hostVars, cfg, img, swOf, buffer, bufpos>>

\* A handle_cover_image task starts and runs to its first suspension or to its end.
Start(t) ==
    /\ ready # <<>> /\ t = Head(ready)
    /\ ready' = Tail(ready)
    /\ Handle(t, switch)
    /\ UNCHANGED <<hostVars, cfg, img, swOf, buffer, bufpos>>

\* A suspended acquirer, first in the queue, is given a freed slot and goes on.
Acquire(t) ==
    /\ task[t].pc = "wait"
    /\ waiters # <<>> /\ t = Head(waiters)
    /\ sem > 0
    /\ waiters' = Tail(waiters)
    /\ Admit(t, task[t], switch, sem - 1)
    /\ UNCHANGED <<hostVars, cfg, img, swOf, ready, buffer, bufpos>>

---------------------------------------------------------------------------
(* _apply_compression on the executor thread of task t: four calls on self._buffer *)

\* A phase 2 that encodes at the quality phase 1 left off with.
AttemptQSame(t) == task[t].quality

\* The quality and scale of the attempt task t is making.
AttemptQ(t) == IF task[t].phase = 1 THEN task[t].quality ELSE cfg.min_quality
AttemptS(t) == IF task[t].phase = 1 THEN FullScale ELSE task[t].factor

\* self._buffer.seek(0)
Seek(t) ==
    /\ task[t].pc = "seek"
    /\ bufpos' = 0
    /\ task' = [task EXCEPT ![t].pc = "trunc"]
    /\ UNCHANGED <<hostVars, cfg, img, swOf, ready, waiters, sem, buffer, switch>>

\* self._buffer.truncate(0): the contents go, the position stays
Truncate(t) ==
    /\ task[t].pc = "trunc"
    /\ buffer' = <<>>
    /\ task' = [task EXCEPT ![t].pc = "save"]
    /\ UNCHANGED <<hostVars, cfg, img, swOf, ready, waiters, sem, bufpos, switch>>

\* image.save(self._buffer, ...): encodes, then one write at the position
Save(t) ==
    /\ task[t].pc = "save"
    /\ LET data == Encode(Source(t), AttemptQ(t), AttemptS(t))
           made == Append(task[t].tried,
                          [phase |-> task[t].phase, q |-> AttemptQ(t), s |-> AttemptS(t)])
       IN  IF SaveFails(Source(t))
           THEN \* the exception leaves _apply_compression and the worker
                /\ task' = [task EXCEPT ![t].pc = "ret", ![t].exc = TRUE, ![t].tried = made]
                /\ UNCHANGED <<buffer, bufpos>>
           ELSE /\ buffer' = BufWrite(buffer, bufpos, data)
                /\ bufpos' = bufpos + Len(data)
                /\ task' = [task EXCEPT ![t].pc = "getv", ![t].tried = made]
    /\ UNCHANGED <<hostVars, cfg, img, swOf, ready, waiters, sem, switch>>

\* return self._buffer.getvalue(), and the caller's loop up to its next call or return
GetValue(t) ==
    /\ task[t].pc = "getv"
    /\ LET data == buffer
           tk == [task[t] EXCEPT !.data = data]
       IN  IF task[t].phase = 1
           THEN IF WithinBudget(Len(data))
                THEN task' = [task EXCEPT ![t] = [tk EXCEPT !.pc = "ret"]]
                ELSE IF QualityInRange(NextQuality(task[t].quality))
                THEN task' = [task EXCEPT ![t] = [tk EXCEPT !.pc = "seek",
                                                            !.quality = NextQuality(@)]]
                ELSE task' = [task EXCEPT ![t] = [tk EXCEPT !.pc = "ret",
                                                            !.quality = NextQuality(@)]]
           ELSE IF ResizeDone(Len(data), task[t].factor)
                THEN task' = [task EXCEPT ![t] = [tk EXCEPT !.pc = "ret"]]
                ELSE task' = [task EXCEPT ![t] = [tk EXCEPT !.pc = "seek",
                                                            !.factor = NextFactor(@)]]
    /\ UNCHANGED <<hostVars, cfg, img, swOf, ready, waiters, sem, buffer, bufpos, switch>>

---------------------------------------------------------------------------
(* compress_image after an await *)

\* A compress_image that makes the first resize attempt itself, on the event loop.
ResumeInline(t) ==
    /\ task[t].pc = "ret"
    /\ IF task[t].exc
       THEN /\ task' = [task EXCEPT ![t].pc = "done", ![t].out.kind = "raise"]
            /\ Failed(t, switch, sem)
       ELSE IF task[t].phase = 1 /\ NeedsResize(Len(task[t].data))
       THEN /\ task' = [task EXCEPT ![t].pc = "getv", ![t].phase = 2, ![t].factor = FirstFactor,
                                    ![t].tried = Append(@, [phase |-> 2, q |-> cfg.min_quality,
                                                            s |-> FirstFactor])]
            /\ UNCHANGED <<switch, sem>>
       ELSE /\ task' = [task EXCEPT ![t].pc = "done",
                                    ![t].out = [kind |-> "bytes", bytes |-> task[t].data]]
            /\ Complete(t, switch, task[t].data, sem)
    /\ UNCHANGED <<hostVars, cfg, img, swOf, ready, waiters, buffer, bufpos>>

\* The executor's future is done: compress_image goes on after line 61 or line 71.
Resume(t) ==
    /\ task[t].pc = "ret"
    /\ IF task[t].exc
       THEN /\ task' = [task EXCEPT ![t].pc = "done", ![t].out.kind = "raise"]
            /\ Failed(t, switch, sem)
       ELSE IF task[t].phase = 1 /\ NeedsResize(Len(task[t].data))
       THEN \* "too large after quality, resize it": _resize_and_compress goes to the executor
            /\ task' = [task EXCEPT ![t].pc = "seek", ![t].phase = 2, ![t].factor = FirstFactor]
            /\ UNCHANGED <<switch, sem>>
       ELSE /\ task' = [task EXCEPT ![t].pc = "done",
                                    ![t].out = [kind |-> "bytes", bytes |-> task[t].data]]
            /\ Complete(t, switch, task[t].data, sem)
    /\ UNCHANGED <<hostVars, cfg, img, swOf, ready, waiters, buffer, bufpos>>

---------------------------------------------------------------------------
(* Specifications *)

\* Everything a task does once its message is in the event loop.
Step(t) ==
    \/ Start(t)
    \/ Acquire(t)
    \/ Seek(t)
    \/ Truncate(t)
    \/ Save(t)
    \/ GetValue(t)
    \/ Resume(t)

\* The cover pipeline before any message is handled.
CoverInit(c, images, sws, queue) ==
    /\ cfg = c
    /\ img = images
    /\ swOf = sws
    /\ ready = queue
    /\ waiters = <<>>
    /\ sem = MAX_CONCURRENT_COMPRESSIONS
    /\ buffer = <<>>
    /\ bufpos = 0
    /\ task = [t \in Tasks |-> NoTask]
    /\ switch = [s \in Tasks |-> NoSwitch]

\* The rest of the integration at rest: no switch discovered, no message handled, no
\* switch action under way.
HostIdle ==
    /\ registry = [k \in Ids |-> 0]
    /\ coverq = [k \in Ids |-> <<>>]
    /\ objs = <<>>
    /\ inbox = NoInbox
    /\ script = [w \in ScriptRoles |-> NoScript]
    /\ pub = NoPublish
    /\ mqtt = NoMqtt

InitWith(c, images, sws, queue) ==
    /\ CoverInit(c, images, sws, queue)
    /\ entry = EntryFor(c)
    /\ hass = NoHass
    /\ HostIdle

\* A decodable image over budget every encoding of which is one unit long.
Light(c, id) == [id |-> id, len |-> MaxSize + 1, ok |-> TRUE, enc_ok |-> TRUE, fit |-> Keys(c)]
\* A decodable image over budget that is within budget only at the floor scale factor.
Heavy(c, id) ==
    [id |-> id, len |-> MaxSize + 1, ok |-> TRUE, enc_ok |-> TRUE,
     fit |-> {<<c.min_quality, FloorFactor>>}]
\* Bytes over budget that are no image.
Junk(id) == [id |-> id, len |-> MaxSize + 1, ok |-> FALSE, enc_ok |-> FALSE, fit |-> {}]

\* The integration set up with max_concurrent_compressions = N, for a burst of N + 5.
BurstConfig ==
    Config(MaxSize, DEFAULT_INITIAL_QUALITY, DEFAULT_INITIAL_QUALITY, Overflow)
\* The same with min_quality above initial_quality.
BadConfig ==
    Config(MaxSize, 90, 50, Overflow)

EachItsOwn == [t \in Tasks |-> t]
\* The messages of the burst, in the order they reach the event loop.
Burst == [k \in 1..(MAX_CONCURRENT_COMPRESSIONS + Overflow) |-> k]

\* A burst of MAX_CONCURRENT_COMPRESSIONS + Overflow cover messages over budget, each
\* for a switch of its own, arriving at once.  The first two carry decodable images, the same one or two different ones,
\* the others bytes that are no image.
PairInit ==
    \E a \in {Light(BurstConfig, 1), Heavy(BurstConfig, 1)} :
      \E b \in {Light(BurstConfig, 2), Heavy(BurstConfig, 2), a} :
        InitWith(BurstConfig,
                 [t \in Tasks |-> IF t = 1 THEN a ELSE IF t = 2 THEN b ELSE Junk(t)],
                 EachItsOwn, Burst)

\* The same burst, every message a decodable image, under BadConfig: every compression
\* holds its slot until its worker's failure is delivered.
BadInit ==
    InitWith(BadConfig, [t \in Tasks |-> Light(BadConfig, t)], EachItsOwn, Burst)

Init == PairInit \/ BadInit

Next == \E t \in Tasks : Step(t)

Spec == Init /\ [][Next]_vars

\* The bursts in which a request has to wait, and one in which two requests encode.
FairInit ==
    \/ BadInit
    \/ InitWith(BurstConfig,
                [t \in Tasks |-> IF t <= 2 THEN Light(BurstConfig, t) ELSE Junk(t)],
                EachItsOwn, Burst)

\* The event loop runs every task that can run; an executor thread runs to its end.
FairSpec == FairInit /\ [][Next]_vars /\ \A t \in Tasks : WF_vars(Step(t))

\* One compression request alone: any configuration, any payload.
InitCompress ==
    \E c \in Configs :
        \E im \in Images(c, {1}) :
            InitWith(c, [t \in Tasks |-> IF t = 1 THEN im ELSE Junk(t)], EachItsOwn, <<1>>)

NextCompress ==
    \E t \in Tasks :
        \/ Start(t)
        \/ Seek(t)
        \/ Truncate(t)
        \/ Save(t)
        \/ GetValue(t)
        \/ Resume(t)

SpecCompress == InitCompress /\ [][NextCompress]_vars

\* One compression request under a compressor built from an entry that names a
\* quality_step.
InitEntry ==
    \E c \in Configs, step \in WantedSteps :
        \E im \in Images(c, {1}) :
            /\ CoverInit(Construct(EntryWith(c, step)),
                         [t \in Tasks |-> IF t = 1 THEN im ELSE Junk(t)], EachItsOwn, <<1>>)
            /\ entry = EntryWith(c, step)
            /\ hass = NoHass
            /\ HostIdle

SpecEntry == InitEntry /\ [][NextCompress]_vars

---------------------------------------------------------------------------
(* PlayniteGameSwitch.entity_picture, read by the host while covers are handled *)

\* The switches that were set up: those a cover message is addressed to.
Switches == {swOf[t] : t \in Tasks}

\* handle_cover_image of switch s logged "Image compression failed".
CompressionFailed(s) ==
    \E t \in Tasks : swOf[t] = s /\ task[t].pc = "done" /\ task[t].out.kind = "raise"

\* base64.b64encode(bytes).decode("utf-8"): the text that stands for the bytes
B64(bytes) == [k \in 1..Len(bytes) |-> [b64 |-> bytes[k]]]

\* The text a read of the property puts after "data:image/jpeg;base64,": the text
\* encoded by an earlier read if there is one, else that of the stored compressed image.
PictureText(sw) ==
    IF sw.encoded THEN sw.b64
    ELSE IF sw.image_data # 0 /\ ~sw.compressed.none THEN B64(sw.compressed.bytes)
    ELSE <<>>

\* One read of the property: `if self._image_data and not self._encoded_image` encodes
\* self._compressed_image_data, and b64encode(None) raises TypeError.
ReadPicture(s) ==
    /\ s \in Switches
    /\ LET sw == switch[s]
           result == IF sw.image_data # 0 /\ ~sw.encoded
                     THEN IF sw.compressed.none THEN "raise"
                          ELSE IF sw.compressed.bytes = <<>> THEN "none" ELSE "url"
                     ELSE IF sw.encoded THEN "url" ELSE "none"
       IN  switch' = [switch EXCEPT ![s].encoded = (sw.encoded \/ result = "url"),
                                    ![s].b64 = IF result = "url" THEN PictureText(sw) ELSE @,
                                    ![s].pic = [result |-> result,
                                                failed |-> CompressionFailed(s)]]
    /\ UNCHANGED <<hostVars, cfg, img, swOf, ready, waiters, sem, buffer, bufpos, task>>

\* One switch, one cover message with any payload, under any configuration.
InitPicture ==
    \E c \in Configs :
        \E im \in Images(c, {1}) :
            InitWith(c, [t \in Tasks |-> IF t = 1 THEN im ELSE Junk(t)],
                     [t \in Tasks |-> 1], <<1>>)

NextPicture ==
    \E t \in Tasks :
        \/ Start(t)
        \/ Seek(t)
        \/ Truncate(t)
        \/ Save(t)
        \/ GetValue(t)
        \/ Resume(t)
        \/ ReadPicture(t)

SpecPicture == InitPicture /\ [][NextPicture]_vars

---------------------------------------------------------------------------
(* Several cover messages for one switch *)

\* The messages that take all the slots of compression_semaphore but one, each for a
\* switch of its own, and the switch all the other messages are for.
Holders == 1..(MAX_CONCURRENT_COMPRESSIONS - 1)
Shared == MAX_CONCURRENT_COMPRESSIONS
Repeats == Tasks \ Holders

\* A burst of cover messages with decodable images over budget: those of Holders, then
\* those for the switch Shared, each of which carries one of two payloads.
InitCovers ==
    \E pay \in [Repeats -> {Shared, Shared + 1}] :
        InitWith(BurstConfig,
                 [t \in Tasks |-> Light(BurstConfig, IF t \in Holders THEN t ELSE pay[t])],
                 [t \in Tasks |-> IF t \in Holders THEN t ELSE Shared],
                 EachItsOwn)

\* The executor runs the worker of no message of Holders while the others are handled.
NextCovers ==
    \/ \E t \in Tasks : Start(t)
    \/ \E t \in Repeats : Acquire(t)
    \/ \E t \in Repeats : Seek(t)
    \/ \E t \in Repeats : Truncate(t)
    \/ \E t \in Repeats : Save(t)
    \/ \E t \in Repeats : GetValue(t)
    \/ \E t \in Repeats : Resume(t)
    \/ ReadPicture(Shared)

SpecCovers == InitCovers /\ [][NextCovers]_vars

---------------------------------------------------------------------------
(* The first version of the switch, src/switch.py: compress_image runs                *)
(* _compress_image_logic on an executor thread, with a buffer of the thread's own     *)

\* _compress_image_logic: `max_size_bytes = 14500`, `quality = 95`, `minimum_quality = 60`
LegacyConfig ==
    Config(MaxSize, DEFAULT_MIN_QUALITY, DEFAULT_INITIAL_QUALITY, MAX_CONCURRENT_COMPRESSIONS)

Max(a, b) == IF a >= b THEN a ELSE b

\* `quality = max(int(quality * max_size_bytes / initial_size), minimum_quality)` for an
\* input of n units over budget
EstimatedQuality(c, n) ==
    IF n > c.max_size
    THEN Max((c.initial_quality * c.max_size) \div n, c.min_quality)
    ELSE c.initial_quality

\* `resize_factor = (max_size_bytes / len(compressed_image_data)) ** 0.5` as a percentage,
\* for a first encoding of n units over budget
ResizeScale(c, n) ==
    CHOOSE r \in 0..FullScale :
        /\ r * r * n <= FullScale * FullScale * c.max_size
        /\ (r + 1) * (r + 1) * n > FullScale * FullScale * c.max_size

\* The two settings _compress_image_logic encodes an input of n units at.
LegacyKeys(c, n) ==
    { <<EstimatedQuality(c, n), FullScale>>,
      <<EstimatedQuality(c, n), ResizeScale(c, MaxSize + 1)>> }

LegacyImages(c, ids) ==
    UNION { [id : ids, len : {n}, ok : BOOLEAN, enc_ok : BOOLEAN, fit : SUBSET LegacyKeys(c, n)] :
              n \in 1..(MaxSize + 1) }

\* _compress_image_logic from its first line to its return or its exception.
LegacyLogic(t) ==
    LET im == img[t]
        q == EstimatedQuality(cfg, im.len)
        first == Encode(im, q, FullScale)
        sc == ResizeScale(cfg, Len(first))
        second == Encode(im, q, sc)
        a1 == [phase |-> 1, q |-> q, s |-> FullScale]
        a2 == [phase |-> 2, q |-> q, s |-> sc]
        opened == [task[t] EXCEPT !.pc = "ret", !.decoded = TRUE, !.opens = @ + 1]
    IN  IF ~im.ok
        THEN [opened EXCEPT !.exc = TRUE]
        ELSE IF ~im.enc_ok
        THEN [opened EXCEPT !.exc = TRUE, !.tried = <<a1>>]
        ELSE IF Len(first) <= cfg.max_size
        THEN [opened EXCEPT !.phase = 1, !.quality = q, !.data = first, !.tried = <<a1>>]
        ELSE \* `buffer.seek(0)` and a second save over the first, nothing truncated
             [opened EXCEPT !.phase = 2, !.quality = q, !.factor = sc,
                            !.data = BufWrite(first, 0, second), !.tried = <<a1, a2>>]

\* `self._compressed_image_data = await self.compress_image(...)`, then the semaphore is left.
LegacyComplete(t, sw, bytes, held) ==
    /\ switch' = [sw EXCEPT ![swOf[t]].compressed = [none |-> FALSE, bytes |-> bytes]]
    /\ sem' = SemRelease(held)

\* compress_image up to its await, the slot being held.
LegacyAdmit(t, tk, sw, held) ==
    IF img[t].len <= cfg.max_size
    THEN /\ task' = [task EXCEPT ![t] = [tk EXCEPT !.pc = "done", !.fast = TRUE,
                                             !.out = [kind |-> "bytes", bytes |-> Payload(img[t])]]]
         /\ LegacyComplete(t, sw, Payload(img[t]), held)
    ELSE /\ task' = [task EXCEPT ![t] = [tk EXCEPT !.pc = "work"]]
         /\ switch' = sw
         /\ sem' = held

\* A handle_cover_image task of the first version starts.
LegacyStart(t) ==
    /\ ready # <<>> /\ t = Head(ready)
    /\ ready' = Tail(ready)
    /\ LET s == swOf[t]
           sw == [switch EXCEPT ![s].image_data = img[t].id]
       IN  IF ~switch[s].compressed.none
           THEN /\ task' = [task EXCEPT ![t].pc = "done"]
                /\ switch' = sw
                /\ UNCHANGED <<sem, waiters>>
           ELSE IF SemFree
           THEN /\ LegacyAdmit(t, task[t], sw, sem - 1)
                /\ UNCHANGED waiters
           ELSE /\ task' = [task EXCEPT ![t].pc = "wait"]
                /\ waiters' = Append(waiters, t)
                /\ switch' = sw
                /\ UNCHANGED sem
    /\ UNCHANGED <<hostVars, cfg, img, swOf, buffer, bufpos>>

LegacyAcquire(t) ==
    /\ task[t].pc = "wait"
    /\ waiters # <<>> /\ t = Head(waiters)
    /\ sem > 0
    /\ waiters' = Tail(waiters)
    /\ LegacyAdmit(t, task[t], switch, sem - 1)
    /\ UNCHANGED <<hostVars, cfg, img, swOf, ready, buffer, bufpos>>

\* The executor thread runs _compress_image_logic.
LegacyWork(t) ==
    /\ task[t].pc = "work"
    /\ task' = [task EXCEPT ![t] = LegacyLogic(t)]
    /\ UNCHANGED <<hostVars, cfg, img, swOf, ready, waiters, sem, buffer, bufpos, switch>>

\* compress_image after its await: the worker's bytes, or `except Exception: return image_data`.
LegacyResume(t) ==
    /\ task[t].pc = "ret"
    /\ LET bytes == IF task[t].exc THEN Payload(img[t]) ELSE task[t].data
       IN  /\ task' = [task EXCEPT ![t].pc = "done",
                                   ![t].out = [kind |-> "bytes", bytes |-> bytes]]
           /\ LegacyComplete(t, switch, bytes, sem)
    /\ UNCHANGED <<hostVars, cfg, img, swOf, ready, waiters, buffer, bufpos>>

\* One request alone with any payload, or a burst of MAX_CONCURRENT_COMPRESSIONS +
\* Overflow covers over budget.
LegacyInit ==
    \/ \E im \in LegacyImages(LegacyConfig, {1}) :
          InitWith(LegacyConfig, [t \in Tasks |-> IF t = 1 THEN im ELSE Junk(t)],
                   EachItsOwn, <<1>>)
    \/ \E e \in BOOLEAN :
          InitWith(LegacyConfig,
                   [t \in Tasks |-> [id |-> t, len |-> MaxSize + 1, ok |-> TRUE, enc_ok |-> e,
                                     fit |-> LegacyKeys(LegacyConfig, MaxSize + 1)]],
                   EachItsOwn, Burst)

LegacyNext ==
    \E t \in Tasks :
        \/ LegacyStart(t)
        \/ LegacyAcquire(t)
        \/ LegacyWork(t)
        \/ LegacyResume(t)

SpecLegacy == LegacyInit /\ [][LegacyNext]_vars

---------------------------------------------------------------------------
(* Discovery, cover and game state messages: handle_mqtt_message,                     *)
(* handle_game_state_update and PlayniteGameSwitch.async_added_to_hass                *)

\* The game states a state message reports, and those for which update_state turns
\* the switch on.
GameStates == {"started", "starting", "stopped"}
OnStates == {"started", "starting"}

\* PlayniteGameSwitch.__init__ for an installed release r of game g.  pending: the
\* queued covers async_added_to_hass has popped and not yet handed over; covers: those
\* it has handed to handle_cover_image; direct: those handed over without queueing.
NewSwitch(r, g) ==
    [rel |-> r, game |-> g, installed |-> TRUE, added |-> FALSE, is_on |-> FALSE,
     pending |-> <<>>, covers |-> <<>>, direct |-> <<>>]

\* A queue that takes a new message in front.
EnqueueFront(q, m) == <<m>> \o q

\* `COVER_IMAGE_QUEUE[release_id].append(msg)`
Enqueue(q, m) == Append(q, m)

Arrived(m) == [inbox EXCEPT !.n = @ + 1, !.last = m]

\* handle_game_discovery for a message on the topic of release r with payload id g.
Discovery(r, inst) ==
    /\ inbox.n < MaxMsgs
    /\ LET g == GameOf(r)
       IN  IF ~inst
           THEN \* `COVER_IMAGE_QUEUE.pop(game_id, None)`
                /\ coverq' = [coverq EXCEPT ![g] = <<>>]
                /\ UNCHANGED objs
           ELSE IF registry[r] # 0
           THEN UNCHANGED <<coverq, objs>>
           ELSE \* async_add_entities([switch]): the host adds the entity later
                /\ objs' = Append(objs, NewSwitch(r, g))
                /\ UNCHANGED coverq
    /\ inbox' = Arrived([kind |-> "disc", rel |-> r, installed |-> inst])
    /\ UNCHANGED <<coverVars, mqtt, entry, hass, registry, script, pub>>

\* async_added_to_hass of object i, up to the first hand-over of its loop.
Added(i) ==
    /\ i \in 1..Len(objs) /\ ~objs[i].added
    /\ LET r == objs[i].rel
           q == coverq[r]
       IN  /\ registry' = [registry EXCEPT ![r] = i]
           /\ coverq' = [coverq EXCEPT ![r] = <<>>]
           /\ objs' = [objs EXCEPT ![i].added = TRUE,
                                   ![i].covers = IF q = <<>> THEN <<>> ELSE <<Head(q)>>,
                                   ![i].pending = IF q = <<>> THEN <<>> ELSE Tail(q)]
    /\ UNCHANGED <<coverVars, mqtt, entry, hass, inbox, script, pub>>

\* The loop of async_added_to_hass goes on: `await self.handle_cover_image(queued_msg)`
\* has ended (it raises nothing), the next queued message is handed over.
HandNext(i) ==
    /\ i \in 1..Len(objs) /\ objs[i].pending # <<>>
    /\ objs' = [objs EXCEPT ![i].covers = Append(@, Head(objs[i].pending)),
                            ![i].pending = Tail(@)]
    /\ UNCHANGED <<coverVars, mqtt, entry, hass, registry, coverq, inbox, script, pub>>

\* The module's handle_cover_image for a cover message of release r.
Cover(r) ==
    /\ inbox.n < MaxMsgs
    /\ LET n == inbox.n + 1
           i == registry[r]
           m == [kind |-> "cover", rel |-> r, n |-> n]
       IN  IF i = 0
           THEN /\ coverq' = [coverq EXCEPT ![r] = Enqueue(@, n)]
                /\ inbox' = [Arrived(m) EXCEPT !.queued[r] = Append(@, n)]
                /\ UNCHANGED objs
           ELSE IF objs[i].installed
           THEN \* a task for switch.handle_cover_image(msg) is handed to the loop
                /\ objs' = [objs EXCEPT ![i].direct = Append(@, n)]
                /\ inbox' = Arrived(m)
                /\ UNCHANGED coverq
           ELSE /\ coverq' = [coverq EXCEPT ![r] = <<>>]
                /\ inbox' = Arrived(m)
                /\ UNCHANGED objs
    /\ UNCHANGED <<coverVars, mqtt, entry, hass, registry, script, pub>>

\* handle_game_state_update for a message {"id": g, "state": st}.
GameState(g, st) ==
    /\ inbox.n < MaxMsgs
    /\ LET i == registry[g]
       IN  IF i = 0
           THEN \* "No switch found for game ID"
                UNCHANGED objs
           ELSE objs' = [objs EXCEPT ![i].is_on = (st \in OnStates)]
    /\ inbox' = Arrived([kind |-> "state", game |-> g, state |-> st])
    /\ UNCHANGED <<coverVars, mqtt, entry, hass, registry, coverq, script, pub>>

InitDiscovery ==
    InitWith(BurstConfig, [t \in Tasks |-> Junk(t)], EachItsOwn, <<>>)

NextDiscovery ==
    \/ \E r \in Releases, inst \in BOOLEAN : Discovery(r, inst)
    \/ \E i \in 1..MaxMsgs : Added(i)
    \/ \E i \in 1..MaxMsgs : HandNext(i)
    \/ \E r \in Releases : Cover(r)
    \/ \E g \in Games, st \in GameStates : GameState(g, st)

SpecDiscovery == InitDiscovery /\ [][NextDiscovery]_vars

---------------------------------------------------------------------------
(* turn_on and turn_off: _perform_switch_action, ScriptExecutor and MqttHandler *)

\* A task handed to the loop has begun to run.
Started(tk) == tk.pc \notin {"idle", "queued"}

\* turn_on ("start") or turn_off ("stop"): three tasks are handed to the loop, for the
\* 'before' script, the request and the 'after' script, and _state is set.
SwitchAction(a) ==
    /\ pub.pc = "idle" /\ \A w \in ScriptRoles : script[w].pc = "idle"
    /\ script' = [w \in ScriptRoles |-> [script[w] EXCEPT !.pc = "queued"]]
    /\ pub' = [pub EXCEPT !.pc = "queued", !.action = a, !.is_on = (a = "start")]
    /\ UNCHANGED <<coverVars, mqtt, entry, hass, registry, coverq, objs, inbox>>

\* The loop starts its tasks in the order they were handed to it.
MayStart(w) == IF w = "before" THEN TRUE ELSE Started(pub)

\* run_script up to `await store.async_load()`
ScriptStart(w) ==
    /\ script[w].pc = "queued" /\ MayStart(w)
    /\ script' = [script EXCEPT ![w].pc = "load"]
    /\ UNCHANGED <<coverVars, mqtt, entry, hass, registry, coverq, objs, inbox, pub>>

\* The store is loaded: with no script selected run_script returns, otherwise
\* _execute_script makes its first service call.
ScriptLoaded(w, selected) ==
    /\ script[w].pc = "load"
    /\ script' = [script EXCEPT ![w].pc = IF selected THEN "call" ELSE "done"]
    /\ UNCHANGED <<coverVars, mqtt, entry, hass, registry, coverq, objs, inbox, pub>>

\* `for attempt in range(1, retries + 1)`: after n calls another one follows
MoreCalls(n) == n < Retries

\* A service call of _execute_script ends: "ok", "timeout" or "error".
ScriptCall(w, outcome) ==
    /\ script[w].pc = "call"
    /\ LET made == Append(script[w].results, outcome)
       IN  script' = [script EXCEPT ![w] =
              IF outcome = "ok"
              THEN [pc |-> "done", results |-> made, out |-> "returned"]
              ELSE IF outcome = "error" /\ Len(made) = Retries
              THEN \* `raise`, caught and logged by run_script
                   [pc |-> "done", results |-> made, out |-> "raised"]
              ELSE IF MoreCalls(Len(made))
              THEN [pc |-> "call", results |-> made, out |-> "none"]
              ELSE \* the loop ends after a timeout: _execute_script returns None
                   [pc |-> "done", results |-> made, out |-> "returned"]]
    /\ UNCHANGED <<coverVars, mqtt, entry, hass, registry, coverq, objs, inbox, pub>>

\* send_game_start_request or send_game_stop_request up to its first publish
PublishStart ==
    /\ pub.pc = "queued" /\ Started(script["before"])
    /\ pub' = [pub EXCEPT !.pc = "try"]
    /\ UNCHANGED <<coverVars, mqtt, entry, hass, registry, coverq, objs, inbox, script>>

\* A loop that makes one attempt more.
MoreAttemptsLoose(n) == n <= MaxRetries

\* `for attempt in range(max_retries)`: after n attempts another one follows
MoreAttempts(n) == n < MaxRetries

\* `await async_publish(...)` ends, by returning or by raising.
PublishTry(ok) ==
    /\ pub.pc = "try"
    /\ LET made == Append(pub.results, IF ok THEN "ok" ELSE "fail")
       IN  pub' = IF ok
                  THEN [pub EXCEPT !.pc = "done", !.results = made, !.out = "returned"]
                  ELSE IF MoreAttempts(Len(made))
                  THEN [pub EXCEPT !.pc = "sleep", !.results = made]
                  ELSE [pub EXCEPT !.pc = "done", !.results = made, !.out = "returned"]
    /\ UNCHANGED <<coverVars, mqtt, entry, hass, registry, coverq, objs, inbox, script>>

\* `await asyncio.sleep(0.5)` is over
PublishWake ==
    /\ pub.pc = "sleep"
    /\ pub' = [pub EXCEPT !.pc = "try"]
    /\ UNCHANGED <<coverVars, mqtt, entry, hass, registry, coverq, objs, inbox, script>>

InitAction ==
    InitWith(BurstConfig, [t \in Tasks |-> Junk(t)], EachItsOwn, <<>>)

NextAction ==
    \/ \E a \in {"start", "stop"} : SwitchAction(a)
    \/ \E w \in ScriptRoles : ScriptStart(w)
    \/ \E w \in ScriptRoles, selected \in BOOLEAN : ScriptLoaded(w, selected)
    \/ \E w \in ScriptRoles, outcome \in {"ok", "timeout", "error"} : ScriptCall(w, outcome)
    \/ PublishStart
    \/ \E ok \in BOOLEAN : PublishTry(ok)
    \/ PublishWake

SpecAction == InitAction /\ [][NextAction]_vars

---------------------------------------------------------------------------
(* MqttHandler: subscribe_to_connection, subscribe_to_game_state,                     *)
(* subscribe_to_game_updates and unsubscribe                                          *)

\* subscribe_to_connection, subscribe_to_game_state and subscribe_to_game_updates, by
\* the topic each subscribes to.
\* `self._unsubscribe_callback = await async_subscribe(...)` inside try/except: the
\* host serves the topic and the callable that ends this subscription is stored, or
\* async_subscribe raised, which is logged.
Subscribe(topic, ok) ==
    /\ ~mqtt.unsubscribed
    /\ topic \notin mqtt.called
    /\ mqtt' = IF ok
               THEN [mqtt EXCEPT !.called = @ \cup {topic}, !.active = @ \cup {topic},
                                 !.unsubscribe_callback = topic]
               ELSE [mqtt EXCEPT !.called = @ \cup {topic}]
    /\ UNCHANGED <<coverVars, entry, hass, registry, coverq, objs, inbox, script, pub>>

\* unsubscribe: the stored callable, if there is one, is called and ends the
\* subscription it was returned for.
Unsubscribe ==
    /\ ~mqtt.unsubscribed
    /\ mqtt' = [mqtt EXCEPT !.unsubscribed = TRUE,
                            !.active = IF mqtt.unsubscribe_callback # "none"
                                       THEN @ \ {mqtt.unsubscribe_callback} ELSE @]
    /\ UNCHANGED <<coverVars, entry, hass, registry, coverq, objs, inbox, script, pub>>

\* A message is published on one of the topics: the host hands it to the callback of
\* the subscription if that is still served.
Deliver(topic) ==
    /\ inbox.n < MaxMsgs
    /\ inbox' = Arrived([kind |-> topic, handled |-> topic \in mqtt.active])
    /\ UNCHANGED <<coverVars, mqtt, entry, hass, registry, coverq, objs, script, pub>>

InitSubscriptions == InitWith(BurstConfig, [t \in Tasks |-> Junk(t)], EachItsOwn, <<>>)

NextSubscriptions ==
    \/ \E topic \in Topics, ok \in BOOLEAN : Subscribe(topic, ok)
    \/ Unsubscribe
    \/ \E topic \in Topics : Deliver(topic)

SpecSubscriptions == InitSubscriptions /\ [][NextSubscriptions]_vars

---------------------------------------------------------------------------
(* Integration setup: async_setup_entry, _schedule_library_request and                *)
(* handle_playnite_connection                                                         *)

\* send_library_request is called, by the setup ("setup"), by the task the listener
\* of homeassistant_started made ("started") or for a connection message ("connection").
SendLibraryRequest(h, origin) == [h EXCEPT !.libreqs = Append(@, origin)]

\* A setup that takes the host for running whatever its state.
RunningAlways(h) == TRUE

\* `if hass.is_running`
RunningNow(h) == h.running

\* hass.bus.async_listen_once: the listener is removed when the event fires
ListenOnce(n) == 0

\* async_setup_entry: _schedule_library_request, then the connection topic is subscribed.
Setup ==
    /\ ~hass.setup
    /\ LET h == [hass EXCEPT !.setup = TRUE,
                             !.at_setup = IF hass.running THEN "running" ELSE "starting"]
       IN  hass' = IF RunningNow(hass)
                   THEN SendLibraryRequest(h, "setup")
                   ELSE [h EXCEPT !.listeners = @ + 1]
    /\ UNCHANGED <<coverVars, mqtt, entry, registry, coverq, objs, inbox, script, pub>>

\* The host has started: homeassistant_started fires, each listener hands a task for
\* send_library_request to the loop and is removed.
HostStarted ==
    /\ ~hass.running
    /\ hass' = [hass EXCEPT !.running = TRUE, !.fired = @ + 1,
                            !.loop = @ \o [k \in 1..hass.listeners |-> "started"],
                            !.listeners = ListenOnce(@)]
    /\ UNCHANGED <<coverVars, mqtt, entry, registry, coverq, objs, inbox, script, pub>>

\* The loop runs the task the listener made.
RunLoopTask ==
    /\ hass.loop # <<>>
    /\ hass' = [SendLibraryRequest(hass, Head(hass.loop)) EXCEPT !.loop = Tail(hass.loop)]
    /\ UNCHANGED <<coverVars, mqtt, entry, registry, coverq, objs, inbox, script, pub>>

\* handle_playnite_connection for a message on the connection topic.
Connection(status) ==
    /\ hass.setup
    /\ inbox.n < MaxMsgs
    /\ hass' = IF status = "online" THEN SendLibraryRequest(hass, "connection") ELSE hass
    /\ inbox' = Arrived([kind |-> "connection", status |-> status])
    /\ UNCHANGED <<coverVars, mqtt, entry, registry, coverq, objs, script, pub>>

\* The integration is about to be set up, in a host that runs or is still starting.
InitSetup ==
    \E running \in BOOLEAN :
        /\ CoverInit(BurstConfig, [t \in Tasks |-> Junk(t)], EachItsOwn, <<>>)
        /\ entry = EntryFor(BurstConfig)
        /\ hass = [running |-> running, setup |-> FALSE, at_setup |-> "none", listeners |-> 0,
                   fired |-> 0, loop |-> <<>>, libreqs |-> <<>>]
        /\ HostIdle

NextSetup ==
    \/ Setup
    \/ HostStarted
    \/ RunLoopTask
    \/ \E status \in {"online", "offline"} : Connection(status)

SpecSetup == InitSetup /\ [][NextSetup]_vars

---------------------------------------------------------------------------
(* What the claims speak of *)

K == MAX_CONCURRENT_COMPRESSIONS

\* compress_image was entered for task t and has ended.
Ended(t) == task[t].pc = "done" /\ task[t].decoded

\* compress_image returned bytes to task t.
Returned(t) == Ended(t) /\ task[t].out.kind = "bytes"

OverBudgetInput(t) == img[t].len > cfg.max_size

\* The attempts of phase 1, of phase 2, in the order made.
PhaseOne(t) == SelectSeq(task[t].tried, LAMBDA a : a.phase = 1)
PhaseTwo(t) == SelectSeq(task[t].tried, LAMBDA a : a.phase = 2)

\* Tasks whose worker is inside _apply_compression.
Encoding == {t \in Tasks : task[t].pc \in {"seek", "trunc", "save", "getv"}}

\* Tasks between acquiring compression_semaphore and leaving it.
Holding == {t \in Tasks : task[t].pc \in {"seek", "trunc", "save", "getv", "ret"}}

\* C1: a decodable input over budget, under min_quality <= initial_quality, comes back
\* either within budget or as the encoding of the phase-2 attempt at scale factor 0.25.
C1_BudgetOrFloor ==
    \A t \in Tasks :
        (Returned(t) /\ img[t].ok /\ OverBudgetInput(t)
            /\ cfg.min_quality <= cfg.initial_quality)
        => \/ Len(task[t].out.bytes) <= cfg.max_size
           \/ /\ PhaseTwo(t) # <<>>
              /\ task[t].tried[Len(task[t].tried)] =
                    [phase |-> 2, q |-> cfg.min_quality, s |-> FloorFactor]
              /\ task[t].out.bytes = Encode(img[t], cfg.min_quality, FloorFactor)

\* C1 witness: a request that got the over-budget attempt at the floor scale factor.
C1_Witness ==
    \E t \in Tasks :
        /\ Returned(t) /\ OverBudgetInput(t)
        /\ Len(task[t].out.bytes) > cfg.max_size
        /\ Len(PhaseTwo(t)) = 3

\* C2: with max_concurrent_compressions = N and N + 5 covers over budget arriving at
\* once, at most N requests are inside an encode operation.
C2_EncodersWithinConfigured ==
    Cardinality(Encoding) <= cfg.max_concurrent_compressions

\* C3: the bytes compress_image returns to a request are an encoding of that request's
\* own image at one of the settings it tried.
C3_OwnEncodingOnly ==
    \A t \in Tasks :
        (Returned(t) /\ ~task[t].fast)
        => \E i \in 1..Len(task[t].tried) :
              task[t].out.bytes = Encode(img[t], task[t].tried[i].q, task[t].tried[i].s)

\* C4: the slots taken from compression_semaphore are those of the requests between
\* acquire and release, and none is taken when no request is in flight.
C4_SlotsMatchHolders ==
    /\ sem = K - Cardinality(Holding)
    /\ (Holding = {} => sem = K)

\* C4 witness: the burst is over, one compression returned bytes and one raised.
C4_Witness ==
    /\ \A k \in 1..Len(Burst) : task[Burst[k]].pc = "done"
    /\ \E t \in Tasks : task[t].out.kind = "bytes"
    /\ \E t \in Tasks : task[t].out.kind = "raise"

\* C5: a request that found every slot held waits, and in the end acquires a slot and
\* its compression ends.
C5_WaiterCompletes ==
    \A t \in Tasks : (task[t].pc = "wait") ~> Ended(t)

\* C5 witness: a request waits while all slots are held.
C5_Witness ==
    \E t \in Tasks : task[t].pc = "wait" /\ sem = 0 /\ Cardinality(Holding) = K

\* C6: for an input no longer than max_size, compress_image returns the input bytes.
C6_FastPathIdentity ==
    \A t \in Tasks :
        (Ended(t) /\ ~OverBudgetInput(t))
        => task[t].out = [kind |-> "bytes", bytes |-> Payload(img[t])]

\* C7: a request that takes the fast path has not gone through the decode step.
C7_FastPathBeforeDecode ==
    \A t \in Tasks : task[t].fast => ~task[t].decoded

\* C8: for a decodable input over budget, under any configuration, compress_image
\* returns bytes; over budget at the floor scale factor, it returns that attempt's.
C8_AlwaysBytes ==
    \A t \in Tasks :
        (Ended(t) /\ img[t].ok /\ OverBudgetInput(t))
        => /\ task[t].out.kind = "bytes"
           /\ (Len(PhaseTwo(t)) = 3 => task[t].out.bytes = Encode(img[t], cfg.min_quality, FloorFactor))

\* C9: every configuration has min_quality <= initial_quality <= 100 and max_size > 0.
C9_ConfigInvariant ==
    /\ cfg.min_quality <= cfg.initial_quality
    /\ cfg.initial_quality <= 100
    /\ cfg.max_size > 0

\* C10: phase 1 starts at initial_quality, every later attempt is exactly quality_step
\* below the one before it, and none is below min_quality.
C10_QualityDescent ==
    \A t \in Tasks :
        LET p == PhaseOne(t)
        IN  /\ (p # <<>> => p[1].q = cfg.initial_quality)
            /\ \A i \in 2..Len(p) : p[i].q = p[i - 1].q - cfg.quality_step /\ p[i].q < p[i - 1].q
            /\ \A i \in 1..Len(p) : p[i].q >= cfg.min_quality
            /\ \A i, j \in 1..Len(p) : i # j => p[i].q # p[j].q

\* C10 witness: phase 1 went down to min_quality itself in three attempts or more.
C10_Witness ==
    \E t \in Tasks :
        LET p == PhaseOne(t)
        IN  Len(p) >= 3 /\ p[Len(p)].q = cfg.min_quality /\ task[t].pc = "done"

---------------------------------------------------------------------------
(* The two phases of one request *)

\* Attempt a of task t produced an encoding no longer than max_size.
AttemptFits(t, a) == img[t].enc_ok /\ EncSize(img[t], a.q, a.s) <= cfg.max_size

\* The last attempt task t made.
LastTried(t) == task[t].tried[Len(task[t].tried)]

\* The worker of phase 1 has returned to compress_image.
PhaseOneOver(t) == task[t].phase = 2 \/ (task[t].phase = 1 /\ task[t].pc \in {"ret", "done"})

CeilDiv(a, b) == (a + b - 1) \div b

\* The scale factors of _resize_and_compress, in the order of its rounds.
FactorOrder == <<FirstFactor, FirstFactor - FactorStep, FloorFactor>>

\* C11: phase 1 makes no attempt after one that is within budget, a request with such an
\* attempt makes no phase-2 attempt, and that attempt's bytes are what it returns.
C11_StopsAtFirstFit ==
    \A t \in Tasks :
        LET p == PhaseOne(t)
        IN  /\ \A i \in 1..Len(p) : AttemptFits(t, p[i]) => i = Len(p)
            /\ (\E i \in 1..Len(p) : AttemptFits(t, p[i]))
                => /\ PhaseTwo(t) = <<>>
                   /\ Len(task[t].tried) = Len(p)
                   /\ Ended(t) => task[t].out =
                         [kind |-> "bytes", bytes |-> Encode(img[t], p[Len(p)].q, FullScale)]

\* C11 witness: a request returned its second phase-1 attempt, the first being over budget.
C11_Witness ==
    \E t \in Tasks :
        /\ Returned(t) /\ Len(task[t].tried) = 2
        /\ ~AttemptFits(t, task[t].tried[1]) /\ AttemptFits(t, task[t].tried[2])
        /\ task[t].tried[2].phase = 1

\* C12: under min_quality <= initial_quality and quality_step > 0, phase 1 makes at most
\* ceil((initial_quality - min_quality) / quality_step) + 1 attempts, and at least one
\* by the time its worker has returned.
C12_PhaseOneAttempts ==
    \A t \in Tasks :
        (cfg.min_quality <= cfg.initial_quality /\ cfg.quality_step > 0)
        => /\ Len(PhaseOne(t)) <=
                CeilDiv(cfg.initial_quality - cfg.min_quality, cfg.quality_step) + 1
           /\ PhaseOneOver(t) => Len(PhaseOne(t)) >= 1

\* C12 witness: phase 1 ended having made as many attempts as the bound allows, under
\* min_quality below initial_quality.
C12_Witness ==
    \E t \in Tasks :
        /\ cfg.min_quality < cfg.initial_quality
        /\ PhaseOneOver(t)
        /\ Len(PhaseOne(t)) =
              CeilDiv(cfg.initial_quality - cfg.min_quality, cfg.quality_step) + 1

\* C13: the phase-2 attempts of a request are at the scale factors 75, 50, 25 in that
\* order, three at most, none below 25; none follows an attempt within budget or the
\* attempt at 25, and the phase ends only on such an attempt.
C13_ResizeOrder ==
    \A t \in Tasks :
        LET r == PhaseTwo(t)
        IN  /\ Len(r) <= Len(FactorOrder)
            /\ \A i \in 1..Len(r) : r[i].s = FactorOrder[i] /\ r[i].s >= FloorFactor
            /\ \A i \in 1..(Len(r) - 1) : ~AttemptFits(t, r[i]) /\ r[i].s > FloorFactor
            /\ (Returned(t) /\ r # <<>>)
                => (AttemptFits(t, r[Len(r)]) \/ r[Len(r)].s = FloorFactor)

\* C13 witness: phase 2 ended at its second round, the first within budget.
C13_Witness ==
    \E t \in Tasks :
        LET r == PhaseTwo(t)
        IN  Returned(t) /\ Len(r) = 2 /\ AttemptFits(t, r[2]) /\ r[2].s > FloorFactor

\* C14: a request is in phase 2 only when its phase 1 made attempts down to the last
\* quality in range, none of them within budget; and none of its phase-1 attempts
\* comes after a phase-2 attempt.
C14_PhaseOrder ==
    \A t \in Tasks :
        LET p == PhaseOne(t)
        IN  /\ (task[t].phase = 2 \/ PhaseTwo(t) # <<>>)
                => /\ p # <<>>
                   /\ \A i \in 1..Len(p) : ~AttemptFits(t, p[i])
                   /\ p[Len(p)].q - cfg.quality_step < cfg.min_quality
            /\ \A i, j \in 1..Len(task[t].tried) :
                  (i < j /\ task[t].tried[i].phase = 2) => task[t].tried[j].phase = 2

\* C14 witness: a request has moved on to phase 2 after two phase-1 attempts or more.
C14_Witness ==
    \E t \in Tasks :
        task[t].phase = 2 /\ Len(PhaseOne(t)) >= 2 /\ Len(PhaseTwo(t)) >= 1

\* C15: a request decodes its input once: never twice, and once by the time it makes
\* an encode attempt or ends.
C15_DecodesOnce ==
    \A t \in Tasks :
        /\ task[t].opens <= 1
        /\ (task[t].tried # <<>> \/ Ended(t)) => task[t].opens = 1

\* C15 witness: a request ended after four encode attempts or more.
C15_Witness ==
    \E t \in Tasks : Ended(t) /\ Len(task[t].tried) >= 4 /\ task[t].opens >= 1

\* C16: an encodable image over budget at every quality phase 1 tried ends with bytes:
\* the encoding of a phase-2 attempt, at min_quality and a scale below full, that is
\* within budget or was made at the floor scale factor.
C16_ResizeResult ==
    \A t \in Tasks :
        (/\ Ended(t) /\ img[t].ok /\ img[t].enc_ok
         /\ PhaseOne(t) # <<>>
         /\ \A i \in 1..Len(PhaseOne(t)) : ~AttemptFits(t, PhaseOne(t)[i]))
        => /\ PhaseTwo(t) # <<>>
           /\ LastTried(t).phase = 2
           /\ LastTried(t).q = cfg.min_quality
           /\ LastTried(t).s < FullScale
           /\ task[t].out =
                 [kind |-> "bytes", bytes |-> Encode(img[t], LastTried(t).q, LastTried(t).s)]
           /\ (Len(task[t].out.bytes) <= cfg.max_size \/ LastTried(t).s = FloorFactor)

\* C16 witness: phase 1 exhausted over budget, the first resize within budget returned.
C16_Witness ==
    \E t \in Tasks :
        /\ Returned(t) /\ Len(PhaseOne(t)) >= 2 /\ Len(PhaseTwo(t)) = 1
        /\ Len(task[t].out.bytes) <= cfg.max_size
        /\ task[t].out.bytes = Encode(img[t], cfg.min_quality, FirstFactor)

\* C17: for bytes that are no image compress_image raises out of its one decode, having
\* made no encode attempt and left the compressor's buffer as it was.
C17_DecodeFailure ==
    \A t \in Tasks :
        (Ended(t) /\ ~img[t].ok)
        => /\ task[t].out.kind = "raise"
           /\ task[t].tried = <<>>
           /\ task[t].opens = 1
           /\ task[t].phase = 0
           /\ buffer = <<>> /\ bufpos = 0

\* C17 witness: a request for bytes over budget that are no image has ended.
C17_Witness ==
    \E t \in Tasks : Ended(t) /\ ~img[t].ok /\ OverBudgetInput(t) /\ task[t].out.kind = "raise"

\* C18: a compression of a decoded image whose encode or resize step failed ends by
\* raising to its caller, and never with the input bytes as its result.
C18_FailureSurfaced ==
    \A t \in Tasks :
        (task[t].pc = "done" /\ task[t].exc /\ img[t].ok)
        => /\ task[t].out.kind = "raise"
           /\ task[t].out.bytes # Payload(img[t])

\* C19: a read of entity_picture made after the switch's compression failed returns
\* None and does not raise.
C19_NoPictureAfterFailure ==
    \A s \in Tasks :
        switch[s].pic.failed => switch[s].pic.result = "none"

\* C20: two requests with the same input get the same bytes from compress_image.
C20_SameInputSameResult ==
    \A t, u \in Tasks :
        (Returned(t) /\ Returned(u) /\ img[t] = img[u])
        => task[t].out.bytes = task[u].out.bytes

---------------------------------------------------------------------------
(* Where the work of a request runs *)

\* The positions of a request whose work is on an executor thread, the handler being
\* suspended in `await run_in_executor(...)`.
WorkerPcs == {"seek", "trunc", "save", "getv", "work"}

\* C21: an encode attempt is made only by a step of an executor thread, a thread ends
\* only by delivering to the suspended handler, and a request that made attempts ends
\* only from a delivered result.
C21_EncodeOnWorker ==
    [][\A t \in Tasks :
          /\ (task'[t].tried # task[t].tried) => task[t].pc \in {"save", "work"}
          /\ (task[t].pc \in WorkerPcs /\ task'[t].pc \notin WorkerPcs) => task'[t].pc = "ret"
          /\ (task[t].pc # "done" /\ task'[t].pc = "done" /\ task[t].tried # <<>>)
                => task[t].pc = "ret"]_vars

\* C21 witness: a request got its bytes after attempts in both phases while the worker
\* of another request was encoding.
C21_Witness ==
    \E t, u \in Tasks :
        /\ t # u /\ Returned(t) /\ PhaseTwo(t) # <<>>
        /\ task[u].pc = "save"

\* C22: the compressor's max_size, min_quality and initial_quality are those of the
\* entry it was built from, and each phase-1 attempt is the entry's quality_step below
\* the one before it.
C22_StepAsSupplied ==
    /\ cfg.max_size = entry.max_image_size
    /\ cfg.min_quality = entry.min_quality
    /\ cfg.initial_quality = entry.initial_quality
    /\ \A t \in Tasks :
          \A i \in 2..Len(PhaseOne(t)) :
              PhaseOne(t)[i].q = PhaseOne(t)[i - 1].q - entry.quality_step

---------------------------------------------------------------------------
(* Discovery and queued covers *)

RECURSIVE HandedFrom(_, _)
\* The queued covers of release r that the objects from the i-th on have taken from
\* the queue, handed over or not yet, in the order of the objects.
HandedFrom(r, i) ==
    IF i > Len(objs) THEN <<>>
    ELSE (IF objs[i].rel = r THEN objs[i].covers \o objs[i].pending ELSE <<>>)
         \o HandedFrom(r, i + 1)

C24_UninstalledClearsQueue ==
    (inbox.last.kind = "disc" /\ ~inbox.last.installed)
    => coverq[inbox.last.rel] = <<>>

\* C25: no two PlayniteGameSwitch objects are created for one release.
C25_OneSwitchPerRelease ==
    \A i, j \in 1..Len(objs) : objs[i].rel = objs[j].rel => i = j

\* C26: when the last message handled is a state message for a game, every registered
\* switch of that game is on exactly if the state is 'started' or 'starting'.
C26_StateReachesSwitch ==
    inbox.last.kind = "state"
    => \A i \in 1..Len(objs) :
          (objs[i].game = inbox.last.game /\ registry[objs[i].rel] = i)
          => (objs[i].is_on <=> inbox.last.state \in OnStates)

---------------------------------------------------------------------------
(* Switch actions *)

\* The request was published: a publish attempt succeeded.
Published == \E i \in 1..Len(pub.results) : pub.results[i] = "ok"

\* C27: the request is published only when the 'before' script has finished, and the
\* 'after' script has started only when the request is published.
C27_ScriptsAroundRequest ==
    /\ Published => script["before"].pc = "done"
    /\ Started(script["after"]) => Published

\* C28: _publish_mqtt_message makes three attempts at most, none after one that
\* succeeded, and ends by returning, also when all three failed.
C28_PublishBounded ==
    /\ Len(pub.results) <= MaxRetries
    /\ \A i \in 1..(Len(pub.results) - 1) : pub.results[i] = "fail"
    /\ pub.pc = "done" => pub.out = "returned"
    /\ (Len(pub.results) = MaxRetries /\ ~Published) => (pub.pc = "done" /\ pub.out = "returned")
    /\ Published => pub.pc = "done"

\* C28 witness: three attempts failed and _publish_mqtt_message has returned.
C28_Witness ==
    /\ Len(pub.results) = MaxRetries /\ ~Published
    /\ pub.pc = "done" /\ pub.out = "returned"

\* C29: _execute_script makes `retries` service calls at most, none after one that
\* succeeded, and ends by raising when every call failed, by timeout or otherwise.
C29_ScriptFailureRaised ==
    \A w \in ScriptRoles :
        LET res == script[w].results
        IN  /\ Len(res) <= Retries
            /\ \A i \in 1..(Len(res) - 1) : res[i] # "ok"
            /\ (script[w].pc = "done" /\ res # <<>> /\ \A i \in 1..Len(res) : res[i] # "ok")
                  => script[w].out = "raised"

---------------------------------------------------------------------------
(* The library request of the setup *)

\* The calls of send_library_request with the given origin.
Requests(origin) == Len(SelectSeq(hass.libreqs, LAMBDA o : o = origin))

---------------------------------------------------------------------------
(* Subscriptions *)

\* C31: once unsubscribe has been called, the host serves none of the subscriptions
\* made through the handler.
C31_NothingSubscribedAfter == mqtt.unsubscribed => mqtt.active = {}

---------------------------------------------------------------------------
(* Repeated covers *)

\* The bytes are an encoding, or the raw bytes, of payload im and of no other.
MadeFrom(bytes, im) == bytes # <<>> /\ \A k \in 1..Len(bytes) : bytes[k].img = im.id

\* Task t's message is the one the event loop hands to its handler next.
Arriving(t) == ready # <<>> /\ t = Head(ready)

\* C32: the handler of a message whose payload hash is the switch's original_image_hash,
\* a compressed image being stored, ends without a call of compress_image and leaves
\* the stored compressed image and the hash as they were.
C32_SameCoverSkipped ==
    [][\A t \in Tasks :
          (/\ Arriving(t) /\ ready' = Tail(ready)
           /\ HashOf(img[t]) = switch[swOf[t]].hash
           /\ ~switch[swOf[t]].compressed.none /\ switch[swOf[t]].compressed.bytes # <<>>)
          => /\ task'[t].pc = "done" /\ ~task'[t].decoded /\ task'[t].opens = 0
             /\ switch'[swOf[t]].compressed = switch[swOf[t]].compressed
             /\ switch'[swOf[t]].hash = switch[swOf[t]].hash
             /\ sem' = sem /\ waiters' = waiters]_vars

\* C32 witness: a message with the payload of the stored compressed image was handled
\* and ended as "the same as previous".
C32_Witness ==
    \E t \in Repeats :
        /\ task[t].pc = "done" /\ task[t].out.kind = "same" /\ task[t].opens = 0
        /\ MadeFrom(switch[Shared].compressed.bytes, img[t])

\* C33: when the handlers of a switch have all ended and the last message ended without
\* error, the entity picture is the base64 text of a compression of that message's payload.
C33_PictureOfLastCover ==
    (/\ ready = <<>>
     /\ \A t \in Repeats : task[t].pc = "done"
     /\ task[NumTasks].out.kind # "raise")
    => \E bytes \in {switch[Shared].compressed.bytes} \cup {task[t].out.bytes : t \in Repeats} :
          /\ MadeFrom(bytes, img[NumTasks])
          /\ PictureText(switch[Shared]) = B64(bytes)

\* C34: a stored compressed image was produced from the payload whose hash is
\* original_image_hash.
C34_HashOfStoredImage ==
    \A s \in Switches :
        ~switch[s].compressed.none
        => \E t \in Tasks : /\ swOf[t] = s
                           /\ HashOf(img[t]) = switch[s].hash
                           /\ MadeFrom(switch[s].compressed.bytes, img[t])

====
